---- MODULE Spec2Model ----
(***************************************************************************)
(* A model of ricer (src/ricer.go): main loads the configuration, resolves *)
(* the templates directory, globs the template files and hands each file   *)
(* to a goroutine running handleTemplate, throttled by a buffered channel  *)
(* of capacity 4 and joined by a sync.WaitGroup.                           *)
(*                                                                         *)
(* A path is a sequence of components; <<>> is the empty string (for an    *)
(* output) and "." (for a directory).  A file's content is a sequence of   *)
(* chunks <<template, index, vars>>; Hole is what a write past the end of  *)
(* a file leaves behind it.                                                *)
(***************************************************************************)
EXTENDS Integers, Sequences, FiniteSets, TLC

VARIABLES
    env,        \* the inputs of a run: flag, environment, templates, configuration
    pc,         \* where main is
    exitCode,   \* -1 while the process runs, then the exit status
    viper,      \* the configuration store (package viper's global state)
    loads,      \* how many times the store was loaded
    files,      \* main's files, the result of filepath.Glob
    idx,        \* the range loop's position in files
    throttle,   \* the buffered channel throttle
    wg,         \* the WaitGroup's counter
    jpc,        \* where the goroutine of each file is
    jerr,       \* the error handleTemplate returns ("" is nil)
    loc,        \* handleTemplate's locals m and outputFile
    handle,     \* handleTemplate's f: whether it is open, and its offset
    calls,      \* how many times handleTemplate was entered for each file
    dirs,       \* the directories on disk
    fls,        \* the regular files on disk: path -> content
    console,    \* the messages printed so far
    run,        \* 1 in the first run of the tool, 2 in the second
    fls1        \* the regular files the first run left

vars == <<env, pc, exitCode, viper, loads, files, idx, throttle, wg, jpc, jerr,
          loc, handle, calls, dirs, fls, console, run, fls1>>

----------------------------------------------------------------------------
(* Bounds and constants *)

(* The template files of a run of Spec and SpecRerun. *)
MaxTemplates == 2

(* The template files of a run of SpecThrottled: more than the throttle holds. *)
MaxThrottled == 5

(* The writes t.Execute makes for a whole rendering. *)
NChunks == 2

(* make(chan int, 4) *)
ThrottleCap == 4

----------------------------------------------------------------------------
(* Paths, files on disk *)

Hole == <<0, 0, 0>>

Dir(p) == IF Len(p) = 0 THEN <<>> ELSE SubSeq(p, 1, Len(p) - 1)

Prefixes(p) == {SubSeq(p, 1, k) : k \in 1..Len(p)}

NoFiles == [p \in {} |-> <<>>]

Truncated(f, p) == [q \in DOMAIN f \cup {p} |-> IF q = p THEN <<>> ELSE f[q]]

Padded(c, off) == IF Len(c) >= off THEN c ELSE c \o [i \in 1..(off - Len(c)) |-> Hole]

(* Mutant: the file is written in append mode, every write going to its end. *)
WriteAtEnd(c, off, chunk) == Append(c, chunk)

WriteAt(c, off, chunk) ==
    LET base == Padded(c, off)
    IN  [i \in 1..(IF Len(base) > off THEN Len(base) ELSE off + 1) |->
            IF i = off + 1 THEN chunk ELSE base[i]]

----------------------------------------------------------------------------
(* The inputs of a run *)

TmplDir == <<"ricer", "templates">>

TemplateFile(j) == [dir |-> TmplDir, name |-> j, ext |-> ".tmpl"]

FilePath(file) == file.dir \o <<ToString(file.name) \o file.ext>>

(* One template file with its section of the configuration and what the   *)
(* disk does for it: whether template.ParseFiles accepts it, how many      *)
(* chunks t.Execute writes before it returns (fewer than NChunks: it       *)
(* returns an error), whether "<name>.vars" and "<name>.output" are set    *)
(* and to what, and whether os.MkdirAll and os.Create are permitted.       *)
Template(parseOK, writes, hasVars, hasOutput, output, mkdirOK, createOK) ==
    [parseOK |-> parseOK, writes |-> writes, hasVars |-> hasVars, vars |-> 1,
     hasOutput |-> hasOutput, output |-> output,
     mkdirOK |-> mkdirOK, createOK |-> createOK]

Profiles ==
    << Template(TRUE,  NChunks, TRUE,  TRUE,  <<"a", "f">>,      TRUE,  TRUE),
       Template(TRUE,  NChunks, FALSE, TRUE,  <<"a", "b", "g">>, TRUE,  TRUE),
       Template(TRUE,  1,       TRUE,  TRUE,  <<"a", "f">>,      TRUE,  TRUE),
       Template(TRUE,  0,       FALSE, TRUE,  <<"a", "b", "g">>, TRUE,  TRUE),
       Template(TRUE,  NChunks, TRUE,  FALSE, <<>>,              TRUE,  TRUE),
       Template(TRUE,  NChunks, FALSE, TRUE,  <<>>,              TRUE,  TRUE),
       Template(FALSE, NChunks, TRUE,  FALSE, <<>>,              TRUE,  TRUE),
       Template(FALSE, NChunks, TRUE,  TRUE,  <<"a", "f">>,      TRUE,  FALSE),
       Template(TRUE,  NChunks, TRUE,  TRUE,  <<"a", "b", "g">>, FALSE, TRUE),
       Template(TRUE,  NChunks, TRUE,  TRUE,  <<"a", "f">>,      TRUE,  FALSE),
       Template(TRUE,  NChunks, FALSE, TRUE,  <<"a">>,           TRUE,  TRUE) >>

OwnPath(j) == <<"out", ToString(j)>>

Rendered(j) == Template(TRUE, NChunks, TRUE, TRUE, OwnPath(j), TRUE, TRUE)

Unparsable(j) == Template(FALSE, NChunks, TRUE, TRUE, OwnPath(j), TRUE, TRUE)

(* The lists of Spec: any profiles, also one several times, in one order:  *)
(* the goroutines of a list run in every interleaving, a file later in the *)
(* list being like one launched and not yet running.                       *)
TemplateLists ==
    UNION { { [j \in 1..n |-> Profiles[f[j]]] :
                f \in {g \in [1..n -> DOMAIN Profiles] :
                          \A i \in 1..(n - 1) : g[i] <= g[i + 1]} } :
            n \in 0..MaxTemplates }

RerunProfiles ==
    << Template(TRUE,  NChunks, TRUE,  TRUE,  <<"a", "f">>,      TRUE,  TRUE),
       Template(TRUE,  1,       TRUE,  TRUE,  <<"a", "f">>,      TRUE,  TRUE),
       Template(TRUE,  NChunks, FALSE, TRUE,  <<"a", "b", "g">>, TRUE,  TRUE),
       Template(TRUE,  NChunks, FALSE, TRUE,  <<"a">>,           TRUE,  TRUE),
       Template(TRUE,  NChunks, TRUE,  FALSE, <<>>,              TRUE,  TRUE) >>

(* The lists of the two-run specification: different templates, in one order. *)
RerunLists ==
    UNION { { [j \in 1..n |-> RerunProfiles[f[j]]] :
                f \in {g \in [1..n -> DOMAIN RerunProfiles] :
                          \A i \in 1..(n - 1) : g[i] < g[i + 1]} } :
            n \in 0..MaxTemplates }

ThrottledLists ==
    UNION { { [j \in 1..n |-> IF j = r THEN Rendered(j) ELSE Unparsable(j)] :
                r \in {0, 1, n} } : n \in 0..MaxThrottled }

(* A template whose execution fails before its first write. *)
Unexecuted(j) == Template(TRUE, 0, FALSE, TRUE, OwnPath(j), TRUE, TRUE)

(* The lists of SpecOpen: the templates up to one more than the throttle   *)
(* holds get a destination created, the first executing to the end, the    *)
(* others failing in t.Execute; a template alone, and those beyond, do not *)
(* parse.                                                                  *)
OpenLists ==
    { [j \in 1..n |-> IF n = 1 \/ j > ThrottleCap + 1 THEN Unparsable(j)
                      ELSE IF j = 1 THEN Rendered(j) ELSE Unexecuted(j)] :
        n \in 0..MaxThrottled }

Environment(flag, homeOK, cfgOK, dirExists, t) ==
    [flag |-> flag, homeOK |-> homeOK, cfgOK |-> cfgOK, dirExists |-> dirExists,
     n |-> Len(t), t |-> t]

(* The runs: every list of T with a configuration that loads and an        *)
(* existing templates directory; the -c flag, a failing home lookup and an *)
(* unreadable configuration with at most one template; an absent           *)
(* templates directory, which holds no file.                               *)
Environments(T) ==
    { Environment(FALSE, TRUE, TRUE, TRUE, t) : t \in T } \cup
    { Environment(flag, homeOK, cfgOK, TRUE, t) :
        flag \in BOOLEAN, homeOK \in BOOLEAN, cfgOK \in BOOLEAN,
        t \in {s \in T : Len(s) <= 1} } \cup
    { Environment(flag, TRUE, TRUE, FALSE, <<>>) : flag \in BOOLEAN }

Jobs == 1..env.n

----------------------------------------------------------------------------
(* The configuration store *)

EmptyStore == [name \in {} |-> <<>>]

LoadedStore ==
    [name \in 1..env.n |->
        [hasVars |-> env.t[name].hasVars, vars |-> env.t[name].vars,
         hasOutput |-> env.t[name].hasOutput, output |-> env.t[name].output]]

GetStringMap(name) ==
    IF name \in DOMAIN viper /\ viper[name].hasVars THEN viper[name].vars ELSE 0

GetString(name) ==
    IF name \in DOMAIN viper /\ viper[name].hasOutput THEN viper[name].output ELSE <<>>

TmplName(file) == file.name

ConfigHomeDirectory ==
    IF env.homeOK THEN [dir |-> <<"ricer">>, err |-> FALSE]
                  ELSE [dir |-> <<>>, err |-> TRUE]

TemplatesDirectory ==
    IF ConfigHomeDirectory.err THEN [dir |-> <<>>, err |-> TRUE]
    ELSE [dir |-> ConfigHomeDirectory.dir \o <<"templates">>, err |-> FALSE]

ParseConfigurationFails ==
    IF ~env.flag /\ ConfigHomeDirectory.err THEN TRUE ELSE ~env.cfgOK

Glob(dir) ==
    IF env.dirExists /\ dir = TmplDir THEN [i \in 1..env.n |-> TemplateFile(i)] ELSE <<>>

Msg(kind, tmpl, path) == [kind |-> kind, tmpl |-> tmpl, path |-> path]

----------------------------------------------------------------------------
(* The initial states *)

InitProcess ==
    /\ pc = "parseConfiguration"
    /\ exitCode = -1
    /\ viper = EmptyStore
    /\ loads = 0
    /\ files = <<>>
    /\ idx = 1
    /\ throttle = <<>>
    /\ wg = 0
    /\ jpc = [j \in Jobs |-> "idle"]
    /\ jerr = [j \in Jobs |-> ""]
    /\ loc = [j \in Jobs |-> [m |-> 0, outputFile |-> <<>>, executed |-> 0]]
    /\ handle = [j \in Jobs |-> [open |-> FALSE, off |-> 0]]
    /\ calls = [j \in Jobs |-> 0]
    /\ console = {}

InitWith(E) ==
    /\ env \in E
    /\ InitProcess
    /\ dirs = {}
    /\ fls = NoFiles
    /\ run = 1
    /\ fls1 = NoFiles

Init == InitWith(Environments(TemplateLists))

InitThrottled == InitWith(Environments(ThrottledLists))

InitRerun == InitWith(Environments(RerunLists))

InitOpen == InitWith(Environments(OpenLists))

----------------------------------------------------------------------------
(* main *)

jobVars == <<jpc, jerr, loc, handle, calls>>
diskVars == <<dirs, fls>>
runVars == <<env, run, fls1>>

(* Mutant: the error of parseConfiguration is dropped and main goes on. *)
MainParseConfigurationIgnoresError ==
    /\ pc = "parseConfiguration"
    /\ pc' = "templatesDirectory"
    /\ IF ParseConfigurationFails
       THEN UNCHANGED <<viper, loads>>
       ELSE /\ viper' = LoadedStore
            /\ loads' = loads + 1
    /\ UNCHANGED <<exitCode, console, files, idx, throttle, wg, jobVars, diskVars,
                   runVars>>

MainParseConfiguration ==
    /\ pc = "parseConfiguration"
    /\ IF ParseConfigurationFails
       THEN /\ pc' = "exit"
            /\ exitCode' = 2
            /\ console' = console \cup {Msg("panic", 0, <<>>)}
            /\ UNCHANGED <<viper, loads>>
       ELSE /\ pc' = "templatesDirectory"
            /\ viper' = LoadedStore
            /\ loads' = loads + 1
            /\ UNCHANGED <<exitCode, console>>
    /\ UNCHANGED <<files, idx, throttle, wg, jobVars, diskVars, runVars>>

MainTemplatesDirectory ==
    /\ pc = "templatesDirectory"
    /\ IF TemplatesDirectory.err
       THEN /\ pc' = "exit"
            /\ exitCode' = 0
            /\ console' = console \cup {Msg("guidance", 0, TemplatesDirectory.dir)}
       ELSE /\ pc' = "glob"
            /\ UNCHANGED <<exitCode, console>>
    /\ UNCHANGED <<viper, loads, files, idx, throttle, wg, jobVars, diskVars, runVars>>

MainGlob ==
    /\ pc = "glob"
    /\ files' = Glob(TemplatesDirectory.dir)
    /\ idx' = 1
    /\ pc' = IF Len(files') = 0 THEN "wait" ELSE "send"
    /\ UNCHANGED <<exitCode, viper, loads, throttle, wg, jobVars, diskVars, console,
                   runVars>>

(* Mutant: the send never blocks, as on a channel with no capacity limit. *)
(* Mutant: the channel is made one slot larger. *)
MainSendFiveSlots ==
    /\ pc = "send"
    /\ Len(throttle) < ThrottleCap + 1
    /\ throttle' = Append(throttle, 1)
    /\ pc' = "add"
    /\ UNCHANGED <<exitCode, viper, loads, files, idx, wg, jobVars, diskVars, console,
                   runVars>>

MainSendUnbounded ==
    /\ pc = "send"
    /\ throttle' = Append(throttle, 1)
    /\ pc' = "add"
    /\ UNCHANGED <<exitCode, viper, loads, files, idx, wg, jobVars, diskVars, console,
                   runVars>>

MainSend ==
    /\ pc = "send"
    /\ Len(throttle) < ThrottleCap
    /\ throttle' = Append(throttle, 1)
    /\ pc' = "add"
    /\ UNCHANGED <<exitCode, viper, loads, files, idx, wg, jobVars, diskVars, console,
                   runVars>>

MainAdd ==
    /\ pc = "add"
    /\ wg' = wg + 1
    /\ pc' = "go"
    /\ UNCHANGED <<exitCode, viper, loads, files, idx, throttle, jobVars, diskVars,
                   console, runVars>>

MainGo ==
    /\ pc = "go"
    /\ jpc' = [jpc EXCEPT ![idx] = "parse"]
    /\ idx' = idx + 1
    /\ pc' = IF idx' > Len(files) THEN "wait" ELSE "send"
    /\ UNCHANGED <<exitCode, viper, loads, files, throttle, wg, jerr, loc, handle, calls,
                   diskVars, console, runVars>>

(* Mutant: main does not wait for the WaitGroup. *)
MainWaitNoJoin ==
    /\ pc = "wait"
    /\ pc' = "exit"
    /\ exitCode' = 0
    /\ UNCHANGED <<viper, loads, files, idx, throttle, wg, jobVars, diskVars, console,
                   runVars>>

(* Mutant: the exit status tells whether a job failed. *)
MainWaitFailStatus ==
    /\ pc = "wait"
    /\ wg = 0
    /\ pc' = "exit"
    /\ exitCode' = IF \E j \in Jobs : jerr[j] # "" THEN 1 ELSE 0
    /\ UNCHANGED <<viper, loads, files, idx, throttle, wg, jobVars, diskVars, console,
                   runVars>>

MainWait ==
    /\ pc = "wait"
    /\ wg = 0
    /\ pc' = "exit"
    /\ exitCode' = 0
    /\ UNCHANGED <<viper, loads, files, idx, throttle, wg, jobVars, diskVars, console,
                   runVars>>

----------------------------------------------------------------------------
(* The goroutine of files[j]: handleTemplate, then the report and the release *)

mainVars == <<pc, exitCode, viper, loads, files, idx>>

Failed(j, stage) ==
    /\ jerr' = [jerr EXCEPT ![j] = stage]
    /\ jpc' = [jpc EXCEPT ![j] = "report"]

(* Mutant: the output is looked up and checked before the template is parsed. *)
ParseAfterOutputCheck(j) ==
    /\ jpc[j] = "parse"
    /\ calls' = [calls EXCEPT ![j] = @ + 1]
    /\ IF GetString(TmplName(files[j])) = <<>>
       THEN Failed(j, "output")
       ELSE IF env.t[TmplName(files[j])].parseOK
            THEN /\ jpc' = [jpc EXCEPT ![j] = "config"]
                 /\ UNCHANGED jerr
            ELSE Failed(j, "parse")
    /\ UNCHANGED <<mainVars, throttle, wg, loc, handle, diskVars, console, runVars>>

Parse(j) ==
    /\ jpc[j] = "parse"
    /\ calls' = [calls EXCEPT ![j] = @ + 1]
    /\ IF env.t[TmplName(files[j])].parseOK
       THEN /\ jpc' = [jpc EXCEPT ![j] = "config"]
            /\ UNCHANGED jerr
       ELSE Failed(j, "parse")
    /\ UNCHANGED <<mainVars, throttle, wg, loc, handle, diskVars, console, runVars>>

(* Mutant: the output is not checked for being empty. *)
ConfigNoCheck(j) ==
    /\ jpc[j] = "config"
    /\ loc' = [loc EXCEPT ![j] = [m |-> GetStringMap(TmplName(files[j])),
                                  outputFile |-> GetString(TmplName(files[j])),
                                  executed |-> 0]]
    /\ jpc' = [jpc EXCEPT ![j] = "mkdir"]
    /\ UNCHANGED <<mainVars, throttle, wg, jerr, handle, calls, diskVars, console,
                   runVars>>

(* Mutant: a job that finds no "<name>.vars" stores an empty one (viper.Set). *)
ConfigSetsVars(j) ==
    /\ jpc[j] = "config"
    /\ loc' = [loc EXCEPT ![j] = [m |-> GetStringMap(TmplName(files[j])),
                                  outputFile |-> GetString(TmplName(files[j])),
                                  executed |-> 0]]
    /\ viper' = [viper EXCEPT ![TmplName(files[j])].hasVars = TRUE]
    /\ IF loc'[j].outputFile = <<>>
       THEN Failed(j, "output")
       ELSE /\ jpc' = [jpc EXCEPT ![j] = "mkdir"]
            /\ UNCHANGED jerr
    /\ UNCHANGED <<pc, exitCode, loads, files, idx, throttle, wg, handle, calls,
                   diskVars, console, runVars>>

(* Mutant: a template without "<name>.vars" is refused. *)
ConfigRequiresVars(j) ==
    /\ jpc[j] = "config"
    /\ loc' = [loc EXCEPT ![j] = [m |-> GetStringMap(TmplName(files[j])),
                                  outputFile |-> GetString(TmplName(files[j])),
                                  executed |-> 0]]
    /\ IF loc'[j].outputFile = <<>>
       THEN Failed(j, "output")
       ELSE IF loc'[j].m = 0
            THEN Failed(j, "vars")
            ELSE /\ jpc' = [jpc EXCEPT ![j] = "mkdir"]
                 /\ UNCHANGED jerr
    /\ UNCHANGED <<mainVars, throttle, wg, handle, calls, diskVars, console, runVars>>

Config(j) ==
    /\ jpc[j] = "config"
    /\ loc' = [loc EXCEPT ![j] = [m |-> GetStringMap(TmplName(files[j])),
                                  outputFile |-> GetString(TmplName(files[j])),
                                  executed |-> 0]]
    /\ IF loc'[j].outputFile = <<>>
       THEN Failed(j, "output")
       ELSE /\ jpc' = [jpc EXCEPT ![j] = "mkdir"]
            /\ UNCHANGED jerr
    /\ UNCHANGED <<mainVars, throttle, wg, handle, calls, diskVars, console, runVars>>

(* os.MkdirAll fails when a component of the path is a regular file or the *)
(* disk refuses; it is taken as one step, the directories it makes being   *)
(* made by no other step in between.                                       *)
MkdirAllOK(j, path) ==
    /\ env.t[TmplName(files[j])].mkdirOK
    /\ Prefixes(path) \cap DOMAIN fls = {}

(* Mutant: the notice is printed once the directories are made, before os.Create. *)
MkdirAllThenNotice(j) ==
    /\ jpc[j] = "mkdir"
    /\ IF MkdirAllOK(j, Dir(loc[j].outputFile))
       THEN /\ dirs' = dirs \cup Prefixes(Dir(loc[j].outputFile))
            /\ console' = console \cup
                   {Msg("creating", TmplName(files[j]), loc[j].outputFile)}
            /\ jpc' = [jpc EXCEPT ![j] = "create"]
            /\ UNCHANGED jerr
       ELSE /\ Failed(j, "mkdir")
            /\ UNCHANGED <<dirs, console>>
    /\ UNCHANGED <<mainVars, throttle, wg, loc, handle, calls, fls, runVars>>

(* Mutant: only the parent itself is made (os.Mkdir), not the directories above it. *)
MkdirParentOnly(j) ==
    /\ jpc[j] = "mkdir"
    /\ IF MkdirAllOK(j, Dir(loc[j].outputFile))
       THEN /\ dirs' = dirs \cup (IF Dir(loc[j].outputFile) = <<>> THEN {}
                                  ELSE {Dir(loc[j].outputFile)})
            /\ jpc' = [jpc EXCEPT ![j] = "create"]
            /\ UNCHANGED jerr
       ELSE /\ Failed(j, "mkdir")
            /\ UNCHANGED dirs
    /\ UNCHANGED <<mainVars, throttle, wg, loc, handle, calls, fls, console, runVars>>

MkdirAll(j) ==
    /\ jpc[j] = "mkdir"
    /\ IF MkdirAllOK(j, Dir(loc[j].outputFile))
       THEN /\ dirs' = dirs \cup Prefixes(Dir(loc[j].outputFile))
            /\ jpc' = [jpc EXCEPT ![j] = "create"]
            /\ UNCHANGED jerr
       ELSE /\ Failed(j, "mkdir")
            /\ UNCHANGED dirs
    /\ UNCHANGED <<mainVars, throttle, wg, loc, handle, calls, fls, console, runVars>>

(* os.Create fails on the empty name, on a directory, under a missing      *)
(* parent, or when the disk refuses.                                       *)
CreateOK(j, name) ==
    /\ env.t[TmplName(files[j])].createOK
    /\ name # <<>>
    /\ name \notin dirs
    /\ Dir(name) = <<>> \/ Dir(name) \in dirs

(* Mutant: the destination is opened for appending and not truncated. *)
CreateAppend(j) ==
    /\ jpc[j] = "create"
    /\ IF CreateOK(j, loc[j].outputFile)
       THEN /\ fls' = IF loc[j].outputFile \in DOMAIN fls THEN fls
                      ELSE Truncated(fls, loc[j].outputFile)
            /\ handle' = [handle EXCEPT ![j] =
                             [open |-> TRUE, off |-> Len(fls'[loc[j].outputFile])]]
            /\ jpc' = [jpc EXCEPT ![j] = "notice"]
            /\ UNCHANGED jerr
       ELSE /\ Failed(j, "create")
            /\ UNCHANGED <<fls, handle>>
    /\ UNCHANGED <<mainVars, throttle, wg, loc, calls, dirs, console, runVars>>

Create(j) ==
    /\ jpc[j] = "create"
    /\ IF CreateOK(j, loc[j].outputFile)
       THEN /\ fls' = Truncated(fls, loc[j].outputFile)
            /\ handle' = [handle EXCEPT ![j] = [open |-> TRUE, off |-> 0]]
            /\ jpc' = [jpc EXCEPT ![j] = "notice"]
            /\ UNCHANGED jerr
       ELSE /\ Failed(j, "create")
            /\ UNCHANGED <<fls, handle>>
    /\ UNCHANGED <<mainVars, throttle, wg, loc, calls, dirs, console, runVars>>

Notice(j) ==
    /\ jpc[j] = "notice"
    /\ console' = console \cup {Msg("creating", TmplName(files[j]), loc[j].outputFile)}
    /\ jpc' = [jpc EXCEPT ![j] = "execute"]
    /\ UNCHANGED <<mainVars, throttle, wg, jerr, loc, handle, calls, diskVars, runVars>>

Chunk(j, i) == <<TmplName(files[j]), i, loc[j].m>>

Rendering(j) == [i \in 1..NChunks |-> Chunk(j, i)]

(* Mutant: when t.Execute fails the function returns without f.Close. *)
ExecuteLeaksHandle(j) ==
    /\ jpc[j] = "execute"
    /\ IF loc[j].executed < env.t[TmplName(files[j])].writes
       THEN /\ fls' = [fls EXCEPT ![loc[j].outputFile] =
                          WriteAt(@, handle[j].off, Chunk(j, loc[j].executed + 1))]
            /\ handle' = [handle EXCEPT ![j].off = @ + 1]
            /\ loc' = [loc EXCEPT ![j].executed = @ + 1]
            /\ jpc' = [jpc EXCEPT ![j] =
                          IF loc'[j].executed = NChunks THEN "close" ELSE "execute"]
       ELSE /\ jpc' = [jpc EXCEPT ![j] = "release"]
            /\ UNCHANGED <<fls, handle, loc>>
    /\ UNCHANGED <<mainVars, throttle, wg, jerr, calls, dirs, console, runVars>>

(* Mutant: the error of t.Execute is returned to the caller. *)
ExecuteReturnsError(j) ==
    /\ jpc[j] = "execute"
    /\ IF loc[j].executed < env.t[TmplName(files[j])].writes
       THEN /\ fls' = [fls EXCEPT ![loc[j].outputFile] =
                          WriteAt(@, handle[j].off, Chunk(j, loc[j].executed + 1))]
            /\ handle' = [handle EXCEPT ![j].off = @ + 1]
            /\ loc' = [loc EXCEPT ![j].executed = @ + 1]
            /\ jpc' = [jpc EXCEPT ![j] =
                          IF loc'[j].executed = NChunks THEN "close" ELSE "execute"]
            /\ UNCHANGED jerr
       ELSE /\ Failed(j, "execute")
            /\ handle' = [handle EXCEPT ![j].open = FALSE]
            /\ UNCHANGED <<fls, loc>>
    /\ UNCHANGED <<mainVars, throttle, wg, calls, dirs, console, runVars>>

(* One write of t.Execute through f, at f's own offset; its error, when it *)
(* stops early, is dropped by handleTemplate.                              *)
Execute(j) ==
    /\ jpc[j] = "execute"
    /\ IF loc[j].executed < env.t[TmplName(files[j])].writes
       THEN /\ fls' = [fls EXCEPT ![loc[j].outputFile] =
                          WriteAt(@, handle[j].off, Chunk(j, loc[j].executed + 1))]
            /\ handle' = [handle EXCEPT ![j].off = @ + 1]
            /\ loc' = [loc EXCEPT ![j].executed = @ + 1]
            /\ jpc' = [jpc EXCEPT ![j] =
                          IF loc'[j].executed = NChunks THEN "close" ELSE "execute"]
       ELSE /\ jpc' = [jpc EXCEPT ![j] = "close"]
            /\ UNCHANGED <<fls, handle, loc>>
    /\ UNCHANGED <<mainVars, throttle, wg, jerr, calls, dirs, console, runVars>>

(* Mutant: a job that returns nil ends its goroutine without <-throttle. *)
CloseNoRelease(j) ==
    /\ jpc[j] = "close"
    /\ handle' = [handle EXCEPT ![j].open = FALSE]
    /\ jpc' = [jpc EXCEPT ![j] = "done"]
    /\ UNCHANGED <<mainVars, throttle, wg, jerr, loc, calls, diskVars, console, runVars>>

Close(j) ==
    /\ jpc[j] = "close"
    /\ handle' = [handle EXCEPT ![j].open = FALSE]
    /\ jpc' = [jpc EXCEPT ![j] = "release"]
    /\ UNCHANGED <<mainVars, throttle, wg, jerr, loc, calls, diskVars, console, runVars>>

ErrorMsg(j) ==
    CASE jerr[j] = "parse"  -> Msg("parse", 0, FilePath(files[j]))
      [] jerr[j] = "output" -> Msg("output", TmplName(files[j]), <<>>)
      [] OTHER              -> Msg(jerr[j], TmplName(files[j]), loc[j].outputFile)

(* Mutant: a failed job ends the process. *)
ReportFatal(j) ==
    /\ jpc[j] = "report"
    /\ console' = console \cup {ErrorMsg(j)}
    /\ jpc' = [jpc EXCEPT ![j] = "release"]
    /\ pc' = "exit"
    /\ exitCode' = 1
    /\ UNCHANGED <<viper, loads, files, idx, throttle, wg, jerr, loc, handle, calls,
                   diskVars, runVars>>

(* Mutant: the goroutine returns after printing the error, its slot not freed. *)
ReportNoRelease(j) ==
    /\ jpc[j] = "report"
    /\ console' = console \cup {ErrorMsg(j)}
    /\ jpc' = [jpc EXCEPT ![j] = "done"]
    /\ UNCHANGED <<mainVars, throttle, wg, jerr, loc, handle, calls, diskVars, runVars>>

Report(j) ==
    /\ jpc[j] = "report"
    /\ console' = console \cup {ErrorMsg(j)}
    /\ jpc' = [jpc EXCEPT ![j] = "release"]
    /\ UNCHANGED <<mainVars, throttle, wg, jerr, loc, handle, calls, diskVars, runVars>>

Release(j) ==
    /\ jpc[j] = "release"
    /\ Len(throttle) > 0
    /\ throttle' = Tail(throttle)
    /\ jpc' = [jpc EXCEPT ![j] = "done"]
    /\ UNCHANGED <<mainVars, wg, jerr, loc, handle, calls, diskVars, console, runVars>>

Done(j) ==
    /\ jpc[j] = "done"
    /\ wg' = wg - 1
    /\ jpc' = [jpc EXCEPT ![j] = "finished"]
    /\ UNCHANGED <<mainVars, throttle, jerr, loc, handle, calls, diskVars, console,
                   runVars>>

----------------------------------------------------------------------------
(* The specifications *)

Next ==
    \/ MainParseConfiguration
    \/ MainTemplatesDirectory
    \/ MainGlob
    \/ MainSend
    \/ MainAdd
    \/ MainGo
    \/ MainWait
    \/ \E j \in Jobs : Parse(j)
    \/ \E j \in Jobs : Config(j)
    \/ \E j \in Jobs : MkdirAll(j)
    \/ \E j \in Jobs : Create(j)
    \/ \E j \in Jobs : Notice(j)
    \/ \E j \in Jobs : Execute(j)
    \/ \E j \in Jobs : Close(j)
    \/ \E j \in Jobs : Report(j)
    \/ \E j \in Jobs : Release(j)
    \/ \E j \in Jobs : Done(j)

Spec == Init /\ [][Next]_vars

SpecThrottled == InitThrottled /\ [][Next]_vars

(* Go runs a runnable goroutine eventually: while main or a worker can    *)
(* take a step, some step is taken.                                        *)
FairThrottled == InitThrottled /\ [][Next]_vars /\ WF_vars(Next)

SpecOpen == InitOpen /\ [][Next]_vars

(* The tool is started a second time on the disk the first run left. *)
Rerun ==
    /\ pc = "exit"
    /\ run = 1
    /\ run' = 2
    /\ fls1' = fls
    /\ pc' = "parseConfiguration"
    /\ exitCode' = -1
    /\ viper' = EmptyStore
    /\ loads' = 0
    /\ files' = <<>>
    /\ idx' = 1
    /\ throttle' = <<>>
    /\ wg' = 0
    /\ jpc' = [j \in Jobs |-> "idle"]
    /\ jerr' = [j \in Jobs |-> ""]
    /\ loc' = [j \in Jobs |-> [m |-> 0, outputFile |-> <<>>, executed |-> 0]]
    /\ handle' = [j \in Jobs |-> [open |-> FALSE, off |-> 0]]
    /\ calls' = [j \in Jobs |-> 0]
    /\ console' = {}
    /\ UNCHANGED <<env, dirs, fls>>

NextRerun == Next \/ Rerun

SpecRerun == InitRerun /\ [][NextRerun]_vars

----------------------------------------------------------------------------
(* Properties *)

InHandleTemplate == {"parse", "config", "mkdir", "create", "notice", "execute", "close"}

Returned == {"report", "release", "done", "finished"}

Executing ==
    {j \in Jobs : jpc[j] \in InHandleTemplate \/ (pc \in {"add", "go"} /\ idx = j)}

Joined == pc = "exit" /\ ~ParseConfigurationFails /\ ~TemplatesDirectory.err

(* C1: whatever the number of template files and the interleaving, at most *)
(* 4 jobs hold a slot acquired by the dispatcher while handleTemplate has  *)
(* not yet returned.                                                       *)
C1_AtMostFourExecuting == Cardinality(Executing) <= 4

(* The throttle is saturated with four jobs inside handleTemplate and the  *)
(* dispatcher is blocked with a fifth file still to dispatch.              *)
C1_Saturated ==
    /\ pc = "send"
    /\ idx = 5
    /\ Cardinality({j \in Jobs : jpc[j] \in InHandleTemplate}) = 4

(* C2: main reaches Exit only after every discovered template has been    *)
(* dispatched and handleTemplate has returned for every dispatched job.    *)
C2_ExitOnlyAfterAllReturned ==
    pc = "exit" =>
        /\ idx > Len(files)
        /\ \A j \in DOMAIN files : jpc[j] \in Returned

C2_JoinedFive ==
    /\ pc = "exit"
    /\ Len(files) = 5
    /\ \A j \in Jobs : jpc[j] = "finished"
    /\ \E j \in Jobs : jerr[j] = ""
    /\ \E j \in Jobs : jerr[j] # ""

(* C3: under fair scheduling a dispatcher blocked on the saturated         *)
(* throttle is eventually resumed, and the run eventually reaches Exit     *)
(* with every discovered template dispatched, whatever jobs fail.          *)
C3_NoDeadlock ==
    /\ (pc = "send" /\ Len(throttle) = ThrottleCap) ~> (pc = "add")
    /\ <>(pc = "exit" /\ (Joined => \A j \in Jobs : calls[j] = 1))

C3_BlockedOnFailures ==
    /\ pc = "send"
    /\ Len(throttle) = ThrottleCap
    /\ \A j \in 1..4 : jerr[j] # ""

Ended == {"release", "done", "finished"}

(* The message names template j: by its name, or by the path of its file. *)
NamesTemplate(m, j) == m.tmpl = j \/ m.path = FilePath(TemplateFile(j))

MissingOutput(j) == ~env.t[j].hasOutput \/ env.t[j].output = <<>>

(* C4: a failed job aborts nothing: handleTemplate is entered at most once *)
(* per template, and when main has joined, exactly once for each; every    *)
(* job that returned nil has its output file on disk and every job that    *)
(* returned an error has printed an error naming its template.             *)
C4_FailuresStayLocal ==
    /\ \A j \in Jobs : calls[j] <= 1
    /\ Joined =>
         \A j \in Jobs :
            /\ calls[j] = 1
            /\ jpc[j] = "finished"
            /\ jerr[j] = "" => loc[j].outputFile \in DOMAIN fls
            /\ jerr[j] # "" =>
                  \E m \in console : m.kind = jerr[j] /\ NamesTemplate(m, j)

C4_OneFailsOneRenders ==
    /\ Joined
    /\ env.n = 2
    /\ jerr[1] # ""
    /\ jerr[2] = ""
    /\ fls[loc[2].outputFile] = Rendering(2)

(* C5 as stated: a job whose template has no output, or the empty string,  *)
(* ends with the missing-output error naming the template, and no step of  *)
(* that job changes a directory or a file.                                 *)
C5_MissingOutputAlwaysReported ==
    [][\A j \in Jobs :
         MissingOutput(j) =>
            /\ jpc'[j] # jpc[j] => UNCHANGED <<dirs, fls>>
            /\ jpc'[j] \in Ended =>
                  jerr'[j] = "output" /\ Msg("output", j, <<>>) \in console']_vars

(* C5 amended: as C5, for the templates that parse; a template that does   *)
(* not parse ends with the parse error, and its job changes no directory   *)
(* or file either.                                                         *)
C5_MissingOutputReportedIfParsed ==
    [][\A j \in Jobs :
         MissingOutput(j) =>
            /\ jpc'[j] # jpc[j] => UNCHANGED <<dirs, fls>>
            /\ jpc'[j] \in Ended =>
                  IF env.t[j].parseOK
                  THEN jerr'[j] = "output" /\ Msg("output", j, <<>>) \in console'
                  ELSE /\ jerr'[j] = "parse"
                       /\ Msg("parse", 0, FilePath(TemplateFile(j))) \in console']_vars

C5_MissingOutputBesideRendering ==
    \E j \in Jobs :
        /\ MissingOutput(j)
        /\ env.t[j].parseOK
        /\ jpc[j] = "finished"
        /\ jerr[j] = "output"
        /\ Msg("output", j, <<>>) \in console
        /\ DOMAIN fls # {}

(* C6: when the templates directory does not exist, the run prints the     *)
(* guidance naming the expected directory, dispatches nothing, writes      *)
(* nothing and exits cleanly.                                              *)
C6_GuidanceWhenDirectoryAbsent ==
    pc = "exit" /\ ~env.dirExists /\ ~ParseConfigurationFails =>
        /\ Msg("guidance", 0, TmplDir) \in console
        /\ exitCode = 0
        /\ \A j \in Jobs : calls[j] = 0
        /\ dirs = {}
        /\ fls = NoFiles

(* C7: when loading the configuration fails the process aborts at once,    *)
(* reporting the error: nothing is globbed or dispatched, no job starts    *)
(* and the disk is not written.                                            *)
C7_ConfigFailureAborts ==
    ParseConfigurationFails =>
        /\ pc \in {"parseConfiguration", "exit"}
        /\ pc = "exit" => exitCode = 2 /\ Msg("panic", 0, <<>>) \in console
        /\ files = <<>>
        /\ throttle = <<>>
        /\ \A j \in Jobs : jpc[j] = "idle" /\ calls[j] = 0
        /\ dirs = {}
        /\ fls = NoFiles

C7_AbortedWithTemplates ==
    /\ ParseConfigurationFails
    /\ pc = "exit"
    /\ exitCode = 2
    /\ env.n = 1

(* C8: the exit status is non-zero only when the configuration or the      *)
(* templates directory could not be resolved; a run that reaches the       *)
(* dispatch exits with status 0 whatever its jobs did.                     *)
C8_ExitStatusIgnoresJobs ==
    pc = "exit" =>
        /\ exitCode # 0 => ParseConfigurationFails \/ TemplatesDirectory.err
        /\ Joined => exitCode = 0

C8_ExitZeroWithFailures ==
    /\ Joined
    /\ exitCode = 0
    /\ env.n = 2
    /\ \A j \in Jobs : jerr[j] # ""

(* C9: a job that returned nil has written the whole rendering to its      *)
(* destination file.                                                       *)
C9_NilMeansFullyWritten ==
    \A j \in Jobs :
        jpc[j] \in Ended /\ jerr[j] = "" =>
            /\ loc[j].outputFile \in DOMAIN fls
            /\ fls[loc[j].outputFile] = Rendering(j)

DistinctOutputs ==
    \A i, j \in Jobs :
        i # j /\ env.t[i].output = env.t[j].output => env.t[i].output = <<>>

(* C10 as stated: the second run of the tool leaves the files the first    *)
(* run left, with the same contents.                                       *)
C10_SecondRunSameFiles == pc = "exit" /\ run = 2 => fls = fls1

(* C10 amended: the second run leaves the files of the first run with the  *)
(* same contents when no two templates have the same output path.          *)
C10_SecondRunSameFilesIfDistinct ==
    pc = "exit" /\ run = 2 /\ DistinctOutputs => fls = fls1

C10_TwoFilesRewritten ==
    /\ pc = "exit"
    /\ run = 2
    /\ DistinctOutputs
    /\ env.n = 2
    /\ \A j \in Jobs : jerr[j] = "" /\ fls[loc[j].outputFile] = Rendering(j)
    /\ fls = fls1

(* C11: the directories above a destination are all made before the       *)
(* destination is created: a job about to create its file, and a job that  *)
(* returned nil, has every directory above its destination on disk, the    *)
(* latter its file too, and no file is ever on disk without the            *)
(* directories above it.                                                   *)
C11_ParentsBeforeFile ==
    /\ \A p \in DOMAIN fls : Prefixes(Dir(p)) \subseteq dirs
    /\ \A j \in Jobs :
          /\ jpc[j] = "create" => Prefixes(Dir(loc[j].outputFile)) \subseteq dirs
          /\ jpc[j] \in Ended /\ jerr[j] = "" =>
                /\ Prefixes(Dir(loc[j].outputFile)) \subseteq dirs
                /\ loc[j].outputFile \in DOMAIN fls

C11_DeepDirectoriesMade ==
    \E j \in Jobs :
        /\ env.n = 1
        /\ Len(loc[j].outputFile) = 3
        /\ jpc[j] = "finished"
        /\ jerr[j] = ""
        /\ dirs = Prefixes(Dir(loc[j].outputFile))
        /\ DOMAIN fls = {loc[j].outputFile}

(* C12: a template that parses and has an output but no "<name>.vars" does *)
(* not fail for that: its mapping is empty and the job can only fail in    *)
(* making the directories or the file; when it returns nil the template    *)
(* was executed with the empty mapping.                                    *)
C12_NoVarsIsNoError ==
    \A j \in Jobs :
        env.t[j].parseOK /\ ~env.t[j].hasVars /\ ~MissingOutput(j) =>
            /\ jerr[j] \in {"", "mkdir", "create"}
            /\ jpc[j] \notin {"idle", "parse", "config"} => loc[j].m = 0
            /\ jpc[j] \in Ended /\ jerr[j] = "" =>
                  /\ loc[j].executed = env.t[j].writes
                  /\ \A i \in 1..Len(fls[loc[j].outputFile]) :
                        fls[loc[j].outputFile][i][1] = TmplName(files[j]) =>
                            fls[loc[j].outputFile][i][3] = 0

C12_RenderedWithoutVars ==
    \E j \in Jobs :
        /\ ~env.t[j].hasVars
        /\ jpc[j] = "finished"
        /\ jerr[j] = ""
        /\ loc[j].m = 0
        /\ fls[loc[j].outputFile] = Rendering(j)

(* handleTemplate is past t.Execute: its goroutine is at f.Close or later  *)
(* and none of the four returns before os.Create's success was taken.      *)
ExecuteReturned(j) ==
    /\ jpc[j] \in {"close", "report"} \cup Ended
    /\ jerr[j] \notin {"parse", "output", "mkdir", "create"}

ErrorsOf(j) == {m \in console : m.kind # "creating" /\ NamesTemplate(m, j)}

(* C13: when t.Execute stops before the whole rendering is written, the    *)
(* destination still exists, with what was written or nothing, the job     *)
(* returns nil and no error message is ever printed for it.                *)
C13_ExecuteFailureIsSilent ==
    \A j \in Jobs :
        ExecuteReturned(j) /\ loc[j].executed < NChunks =>
            /\ jerr[j] = ""
            /\ jpc[j] # "report"
            /\ loc[j].outputFile \in DOMAIN fls
            /\ ErrorsOf(j) = {}

C13_PartialFileNoError ==
    \E j \in Jobs :
        /\ env.n = 1
        /\ jpc[j] = "finished"
        /\ loc[j].executed = 1
        /\ loc[j].executed < NChunks
        /\ jerr[j] = ""
        /\ fls[loc[j].outputFile] = <<Chunk(j, 1)>>
        /\ ErrorsOf(j) = {}
        /\ pc = "exit"

(* Two templates, and no third, configured with one output, both parsing   *)
(* and executing to the end, no other template's output being a directory  *)
(* above theirs or below it.                                               *)
SameOutput(i, j) ==
    /\ i # j
    /\ env.t[i].output = env.t[j].output
    /\ \A k \in {i, j} :
          /\ env.t[k].parseOK /\ env.t[k].hasOutput /\ env.t[k].output # <<>>
          /\ env.t[k].writes = NChunks
          /\ env.t[k].mkdirOK /\ env.t[k].createOK
    /\ \A k \in Jobs \ {i, j} :
          /\ env.t[k].output # env.t[i].output
          /\ env.t[k].output \notin Prefixes(Dir(env.t[i].output))
          /\ env.t[i].output \notin Prefixes(Dir(env.t[k].output))

Live == {j \in Jobs : jpc[j] \in InHandleTemplate \cup {"report", "release", "done"}}

HoldingSlot == {j \in Jobs : jpc[j] \in InHandleTemplate \cup {"report", "release"}}

(* C15 as stated: at most 4 goroutines are between their launch and their  *)
(* wg.Done.                                                                *)
C15_AtMostFourLive == Cardinality(Live) <= 4

(* C15, amended: at most 4 goroutines are between their launch and their   *)
(* receive from the throttle; the live ones are these and the ones that    *)
(* have freed their slot and not yet run wg.Done.                          *)
C15_AtMostFourHoldingSlot ==
    /\ Cardinality(HoldingSlot) <= 4
    /\ Cardinality(Live) <= wg

C15_FiveLive ==
    /\ Cardinality(HoldingSlot) = 4
    /\ Cardinality(Live) = 5
    /\ \E j \in HoldingSlot : jerr[j] = "" /\ jpc[j] = "execute"

NoticeOf(j) == Msg("creating", TmplName(files[j]), loc[j].outputFile)

(* C16 as stated: the notice of a job is on the console only when the job  *)
(* has returned nil, the template executed and the handle closed; a job    *)
(* that failed has printed its error and no notice.                        *)
C16_NoticeComesLast ==
    \A j \in DOMAIN files :
        /\ NoticeOf(j) \in console =>
              jpc[j] \in Ended /\ jerr[j] = "" /\ ~handle[j].open
        /\ jpc[j] \in Ended /\ jerr[j] # "" =>
              ErrorMsg(j) \in console /\ NoticeOf(j) \notin console

(* C16, amended: the notice of a job is on the console exactly from the    *)
(* moment its destination is created: before the first write of t.Execute  *)
(* and before the handle is closed, and from then on the job cannot fail;  *)
(* a job that failed has printed its error and no notice.                  *)
C16_NoticeAfterCreateBeforeExecute ==
    \A j \in DOMAIN files :
        /\ NoticeOf(j) \in console <=>
              \/ jpc[j] \in {"execute", "close"}
              \/ jpc[j] \in Ended /\ jerr[j] = ""
        /\ NoticeOf(j) \in console =>
              jerr[j] = "" /\ loc[j].outputFile \in DOMAIN fls
        /\ jpc[j] = "notice" => handle[j].open /\ loc[j].executed = 0
        /\ jpc[j] = "execute" => handle[j].open
        /\ jpc[j] \in Ended /\ jerr[j] # "" =>
              ErrorMsg(j) \in console /\ NoticeOf(j) \notin console

C16_NoticeBeforeFirstWrite ==
    \E j \in DOMAIN files :
        /\ env.n = 1
        /\ jpc[j] = "execute"
        /\ NoticeOf(j) \in console
        /\ loc[j].executed = 0
        /\ handle[j].open
        /\ fls[loc[j].outputFile] = <<>>

(* The jobs whose *os.File from os.Create is not yet closed. *)
Open == {j \in Jobs : handle[j].open}

(* C17: a handle is open only between os.Create and f.Close of its job,    *)
(* whether t.Execute wrote everything or failed: no job past f.Close, and  *)
(* no job at all once main has returned, has a handle open, and at most 4  *)
(* handles are open at a time.                                             *)
C17_HandlesReleased ==
    /\ \A j \in Open : jpc[j] \in {"notice", "execute", "close"}
    /\ pc = "exit" => Open = {}
    /\ Cardinality(Open) <= 4

C17_FourHandlesOpen ==
    /\ pc = "send"
    /\ idx = 5
    /\ Cardinality(Open) = 4
    /\ \E j \in Open : jpc[j] = "close" /\ loc[j].executed = NChunks
    /\ \E j \in Open : jpc[j] = "close" /\ loc[j].executed < NChunks
    /\ \E j \in Jobs \ Open : jpc[j] = "idle"

(* main is at or past the dispatch loop, or a goroutine has been launched. *)
Dispatching ==
    \/ pc \in {"send", "add", "go", "wait"}
    \/ \E j \in Jobs : jpc[j] # "idle"

(* C18: the store is loaded at most once, and exactly once before the      *)
(* first dispatch; from then on, main's return included, it holds what     *)
(* the load put there, and what a job has read from it is what it holds.   *)
C18_StoreLoadedOnceThenReadOnly ==
    /\ loads <= 1
    /\ Dispatching \/ Joined => loads = 1 /\ viper = LoadedStore
    /\ \A j \in Jobs :
          jpc[j] \notin {"idle", "parse", "config"} /\ jerr[j] # "parse" =>
              /\ loc[j].m = GetStringMap(TmplName(files[j]))
              /\ loc[j].outputFile = GetString(TmplName(files[j]))

C18_TwoJobsReadOneStore ==
    /\ Joined
    /\ env.n = 2
    /\ loads = 1
    /\ viper = LoadedStore
    /\ \A j \in Jobs : jpc[j] = "finished" /\ jerr[j] = ""
    /\ \E j \in Jobs : loc[j].m # 0
    /\ \E j \in Jobs : loc[j].m = 0

(* The jobs whose os.MkdirAll, and whose os.Create, has succeeded. *)
MadeDirectories ==
    {j \in Jobs : \/ jpc[j] \in {"create", "notice", "execute", "close"}
                  \/ jpc[j] \in Returned /\ jerr[j] \in {"", "create"}}

CreatedFile ==
    {j \in Jobs : \/ jpc[j] \in {"notice", "execute", "close"}
                  \/ jpc[j] \in Returned /\ jerr[j] = ""}

(* C19: a job that has returned failed in the first stage, of parse,       *)
(* output, directories, file, that fails for it, and took no later step:   *)
(* it read no configuration after a parse failure, opened no file after    *)
(* any failure and printed one error; the directories and files on disk    *)
(* are those of the jobs whose os.MkdirAll and os.Create succeeded, so a   *)
(* job failing before leaves the disk as it was.                           *)
C19_FirstFailingStageOnly ==
    /\ \A j \in Jobs :
          jpc[j] \in Returned =>
              /\ ~env.t[j].parseOK => jerr[j] = "parse"
              /\ env.t[j].parseOK /\ MissingOutput(j) => jerr[j] = "output"
              /\ env.t[j].parseOK /\ ~MissingOutput(j) /\ ~env.t[j].mkdirOK =>
                    jerr[j] = "mkdir"
              /\ env.t[j].parseOK /\ ~MissingOutput(j) /\ env.t[j].mkdirOK
                    /\ ~env.t[j].createOK => jerr[j] \in {"mkdir", "create"}
              /\ jerr[j] = "parse" => loc[j] = [m |-> 0, outputFile |-> <<>>, executed |-> 0]
              /\ jerr[j] # "" =>
                    /\ handle[j] = [open |-> FALSE, off |-> 0]
                    /\ loc[j].executed = 0
                    /\ ErrorsOf(j) \subseteq {ErrorMsg(j)}
                    /\ jpc[j] \in Ended => ErrorsOf(j) = {ErrorMsg(j)}
    /\ dirs = UNION {Prefixes(Dir(loc[j].outputFile)) : j \in MadeDirectories}
    /\ DOMAIN fls = {loc[j].outputFile : j \in CreatedFile}

C19_ParseAndMkdirFailuresLeaveDisk ==
    /\ Joined
    /\ \E j \in Jobs :
          /\ ~env.t[j].parseOK /\ ~env.t[j].createOK
          /\ jpc[j] = "finished" /\ jerr[j] = "parse"
    /\ \E j \in Jobs :
          /\ ~env.t[j].mkdirOK
          /\ jpc[j] = "finished" /\ jerr[j] = "mkdir"
    /\ dirs = {}
    /\ fls = NoFiles
    /\ Cardinality(console) = 2

(* The slots main has acquired for a goroutine it has not yet launched. *)
Acquiring == IF pc \in {"add", "go"} THEN 1 ELSE 0

(* C20: the tokens in the throttle are as many as the jobs a slot was      *)
(* acquired for and whose goroutine has not freed it, between 0 and 4;     *)
(* a job past its receive, failed or not, holds none, and none is left     *)
(* when main has returned from wg.Wait.                                    *)
C20_TokensAreSlotsHeld ==
    /\ Len(throttle) = Cardinality(HoldingSlot) + Acquiring
    /\ Len(throttle) \in 0..ThrottleCap
    /\ wg = Cardinality(Live) + (IF pc = "go" THEN 1 ELSE 0)
    /\ pc = "exit" => throttle = <<>> /\ HoldingSlot = {}

C20_FullWithBothPaths ==
    /\ pc = "send"
    /\ Len(throttle) = ThrottleCap
    /\ \E j \in Jobs : jpc[j] = "release" /\ jerr[j] = ""
    /\ \E j \in Jobs : jpc[j] = "release" /\ jerr[j] # ""
    /\ \E j \in Jobs : jpc[j] = "idle"

====
